---- MODULE Spec2Model ----
(***************************************************************************)
(* A model of src/src/paragraph.rs: PdfStyledString, PdfParagraph::push,   *)
(* PdfParagraph::text / text_separated, PdfParagraph::guess_line_alignment *)
(* and PdfParagraph::from_objects.                                         *)
(*                                                                         *)
(* Lengths (PdfPoints, an f32 wrapper) are modelled as integers: the code  *)
(* only compares, subtracts and takes absolute values of them.  Strings    *)
(* are sequences of one-character strings.  Option<T> is the empty         *)
(* sequence (None) or a one-element sequence (Some(x)).                    *)
(***************************************************************************)
EXTENDS Integers, Sequences, FiniteSets, TLC

VARIABLES
    pc,                     \* position of the operation being modelled
    \* ---- PdfParagraph (push / text / text_separated)
    fragments,              \* PdfParagraph::fragments
    pushed,                 \* history: the styled strings handed to push, in order
    separators,             \* history: per fragment, the positions at which
                            \* PdfStyledString::push inserted its separator
    separator_arg,          \* the argument of text_separated
    text_result,            \* Option: what text() returned
    text_separated_result,  \* Option: what text_separated(separator_arg) returned
    \* ---- guess_line_alignment called on its own
    align_args,             \* the six arguments
    align_result,           \* Option: the alignment returned
    \* ---- from_objects
    objects,                \* the argument: the slice of page objects
    positioned_objects,
    objects_bottom, objects_top, objects_left, objects_right,
    paragraph_left, paragraph_right,
    idx,                    \* number of positioned objects the for loop has consumed
    lines,
    current_line_fragments,
    current_line_bottom, current_line_left, current_line_right,
    current_line_alignment,
    last_object_bottom, last_object_height, last_object_left,
    last_object_right, last_object_width,
    paragraphs              \* Option: the Vec that from_objects returned

paragraphVars == <<fragments, pushed, separators, separator_arg, text_result,
                   text_separated_result>>

alignVars == <<align_args, align_result>>

fromObjectsVars == <<objects, positioned_objects, objects_bottom, objects_top,
                     objects_left, objects_right, paragraph_left, paragraph_right, idx, lines,
                     current_line_fragments, current_line_bottom, current_line_left,
                     current_line_right, current_line_alignment, last_object_bottom,
                     last_object_height, last_object_left, last_object_right,
                     last_object_width, paragraphs>>

vars == <<pc, paragraphVars, alignVars, fromObjectsVars>>

(***************************************************************************)
(* Bounds of the model.                                                    *)
(***************************************************************************)
MaxPush == 3        \* calls of PdfParagraph::push in one behaviour
MaxFrags == 3       \* fragments of a paragraph queried with text()
MaxCoord == 2       \* page coordinates range over 0..MaxCoord
MaxObjs == 2        \* objects handed to from_objects, arbitrary geometry
MaxLineObjs == 3    \* objects handed to from_objects, arbitrary styling

None == <<>>

Some(x) == <<x>>

Unwrap(o) == o[1]

UnwrapOr(o, default) == IF o = None THEN default ELSE o[1]

Last(s) == s[Len(s)]

Front(s) == SubSeq(s, 1, Len(s) - 1)

Range(s) == {s[i] : i \in DOMAIN s}

SeqsUpTo(S, n) == UNION {[1..k -> S] : k \in 0..n}

\* f32::abs
Abs(x) == IF x < 0 THEN -x ELSE x

\* PdfPoints::ZERO
ZERO == 0

(***************************************************************************)
(* Fonts and styles.  A PdfFont is seen through get_handle() and name();   *)
(* a styled string or text object adds a font size.                        *)
(***************************************************************************)
FontSizes == {12, 14}

FontHandles == {1, 2}

FontNames == {"", "F"}

Fonts == [handle : FontHandles, name : FontNames]

SPACE == <<" ">>

NEWLINE == <<"\n">>

\* str::ends_with
EndsWith(text, suffix) ==
    /\ Len(text) >= Len(suffix)
    /\ SubSeq(text, Len(text) - Len(suffix) + 1, Len(text)) = suffix

\* PdfStyledString::new
StyledString(text, font, font_size) ==
    [text |-> text, font |-> font, font_size |-> font_size]

Texts == {<<>>, <<"a">>, <<"a", " ">>}

StyledStrings == {StyledString(t, f, s) : t \in Texts, f \in Fonts, s \in FontSizes}

\* PdfStyledString::push
StyledStringPush(self, text, separator) ==
    LET separated == IF ~EndsWith(self.text, separator)
                     THEN self.text \o separator
                     ELSE self.text
    IN  [self EXCEPT !.text = separated \o text]

\* A plausible slip in does_match_raw_styling: the font names are never compared.
DoesMatchRawStylingNoName(self, other_font_size, other_font) ==
    /\ self.font_size = other_font_size
    /\ self.font.handle = other_font.handle

\* PdfStyledString::does_match_raw_styling
DoesMatchRawStyling(self, other_font_size, other_font) ==
    IF self.font_size # other_font_size
    THEN FALSE
    ELSE IF self.font.handle # other_font.handle
    THEN FALSE
    ELSE IF self.font.name = "" /\ other_font.name = ""
    THEN TRUE
    ELSE (self.font.name # "" \/ other_font.name # "")
         /\ self.font.name = other_font.name

\* PdfStyledString::does_match_string_styling
DoesMatchStringStyling(self, other) ==
    DoesMatchRawStyling(self, other.font_size, other.font)

(***************************************************************************)
(* Fragments (enum PdfParagraphFragment) and line alignments.              *)
(***************************************************************************)
LineAlignments == {"None", "LeftAlign", "RightAlign", "Center", "Justify"}

StyledStringFragment(string) == [kind |-> "StyledString", string |-> string]

LineBreakFragment(alignment) == [kind |-> "LineBreak", alignment |-> alignment]

NonTextObjectFragment(handle) == [kind |-> "NonTextObject", handle |-> handle]

IsStyled(fragment) == fragment.kind = "StyledString"

(***************************************************************************)
(* PdfParagraph::push                                                      *)
(***************************************************************************)
\* The fragments after push(string), lines 598-615.
PushFragments(frags, string) ==
    IF frags # <<>> /\ IsStyled(Last(frags))
    THEN IF DoesMatchStringStyling(Last(frags).string, string)
         THEN [frags EXCEPT ![Len(frags)] =
                  StyledStringFragment(StyledStringPush(@.string, string.text, SPACE))]
         ELSE Append(frags, StyledStringFragment(string))
    ELSE Append(frags, StyledStringFragment(string))

\* History only: where the separator went, if push merged `string` into the tail.
PushSeparators(frags, seps, string) ==
    IF frags # <<>> /\ IsStyled(Last(frags))
       /\ DoesMatchStringStyling(Last(frags).string, string)
    THEN IF ~EndsWith(Last(frags).string.text, SPACE)
         THEN [seps EXCEPT ![Len(seps)] = Append(@, Len(Last(frags).string.text) + 1)]
         ELSE seps
    ELSE Append(seps, <<>>)

IdleParagraph ==
    /\ fragments = <<>>
    /\ pushed = <<>>
    /\ separators = <<>>
    /\ separator_arg = <<>>
    /\ text_result = None
    /\ text_separated_result = None

IdleAlign ==
    /\ align_args = None
    /\ align_result = None

IdleFromObjects ==
    /\ objects = <<>>
    /\ positioned_objects = <<>>
    /\ objects_bottom = None
    /\ objects_top = None
    /\ objects_left = None
    /\ objects_right = None
    /\ paragraph_left = ZERO
    /\ paragraph_right = ZERO
    /\ idx = 0
    /\ lines = <<>>
    /\ current_line_fragments = <<>>
    /\ current_line_bottom = ZERO
    /\ current_line_left = ZERO
    /\ current_line_right = ZERO
    /\ current_line_alignment = "None"
    /\ last_object_bottom = None
    /\ last_object_height = None
    /\ last_object_left = None
    /\ last_object_right = None
    /\ last_object_width = None
    /\ paragraphs = None

\* PdfParagraph::empty
InitPush ==
    /\ pc = "paragraph"
    /\ IdleParagraph
    /\ IdleAlign
    /\ IdleFromObjects

\* PdfParagraph::push
Push ==
    /\ pc = "paragraph"
    /\ Len(pushed) < MaxPush
    /\ \E string \in StyledStrings :
          /\ fragments' = PushFragments(fragments, string)
          /\ separators' = PushSeparators(fragments, separators, string)
          /\ pushed' = Append(pushed, string)
    /\ UNCHANGED <<pc, separator_arg, text_result, text_separated_result,
                   alignVars, fromObjectsVars>>

NextPush == Push

SpecPush == InitPush /\ [][NextPush]_vars

(***************************************************************************)
(* Claims about PdfParagraph::push.                                        *)
(***************************************************************************)
\* Two styles are the same: same font size, same font handle, same font name.
SameStyle(a, b) ==
    /\ a.font_size = b.font_size
    /\ a.font.handle = b.font.handle
    /\ a.font.name = b.font.name

\* The first string of every maximal run of consecutive strings of the same style.
RECURSIVE StyleRuns(_)
StyleRuns(strings) ==
    IF strings = <<>>
    THEN <<>>
    ELSE IF Len(strings) > 1 /\ SameStyle(strings[Len(strings) - 1], Last(strings))
         THEN StyleRuns(Front(strings))
         ELSE Append(StyleRuns(Front(strings)), Last(strings))

\* C1: after any sequence of push calls on an empty paragraph the fragments are
\* exactly one StyledString fragment per maximal run of consecutive pushes of the
\* same style (size, handle, name), in push order, and so no two adjacent
\* StyledString fragments have the same style.
C1_OneFragmentPerStyleRun ==
    pc = "paragraph" =>
        LET runs == StyleRuns(pushed)
        IN  /\ Len(fragments) = Len(runs)
            /\ \A i \in DOMAIN fragments :
                  /\ IsStyled(fragments[i])
                  /\ SameStyle(fragments[i].string, runs[i])
            /\ \A i \in 1..(Len(fragments) - 1) :
                  ~SameStyle(fragments[i].string, fragments[i + 1].string)

\* Two pushes of one style and a third of another font size: two fragments.
C1_Witness ==
    /\ pc = "paragraph"
    /\ Len(pushed) = 3
    /\ SameStyle(pushed[1], pushed[2])
    /\ pushed[3].font_size # pushed[2].font_size
    /\ pushed[3].font = pushed[2].font
    /\ Len(fragments) = 2

\* The pieces of `text` between the separators inserted at positions `seps`.
RECURSIVE SplitAtSeparators(_, _)
SplitAtSeparators(text, seps) ==
    IF seps = <<>>
    THEN <<text>>
    ELSE Append(SplitAtSeparators(SubSeq(text, 1, Last(seps) - 1), Front(seps)),
                SubSeq(text, Last(seps) + Len(SPACE), Len(text)))

\* Every fragment's text split at the separators that push inserted into it.
RECURSIVE SplitFragments(_, _)
SplitFragments(frags, seps) ==
    IF frags = <<>>
    THEN <<>>
    ELSE SplitFragments(Front(frags), Front(seps))
         \o (IF IsStyled(Last(frags))
             THEN SplitAtSeparators(Last(frags).string.text, Last(seps))
             ELSE <<>>)

Count(s, x) == Cardinality({i \in DOMAIN s : s[i] = x})

SameMultiset(s, t) == \A x \in Range(s) \cup Range(t) : Count(s, x) = Count(t, x)

PushedTexts == [i \in DOMAIN pushed |-> pushed[i].text]

\* C4: conservation: the multiset of the texts pushed equals the multiset obtained
\* by splitting every fragment's text at the separators that coalescing inserted,
\* for all texts, an empty one and one that ends with " " included.
C4_Conservation ==
    pc = "paragraph" =>
        SameMultiset(PushedTexts, SplitFragments(fragments, separators))

(***************************************************************************)
(* PdfParagraph::text and PdfParagraph::text_separated                     *)
(***************************************************************************)
\* [T]::join for a slice of strings
RECURSIVE Join(_, _)
Join(parts, separator) ==
    IF parts = <<>>
    THEN <<>>
    ELSE IF Len(parts) = 1
         THEN parts[1]
         ELSE parts[1] \o separator \o Join(Tail(parts), separator)

\* A plausible slip in text(): a line break contributes nothing.
TextClosureNoBreak(fragment) ==
    IF fragment.kind = "StyledString" THEN Some(fragment.string.text) ELSE None

\* The closure of text(), lines 641-645.
TextClosure(fragment) ==
    CASE fragment.kind = "StyledString" -> Some(fragment.string.text)
      [] fragment.kind = "LineBreak" -> Some(NEWLINE)
      [] OTHER -> None

\* The closure of text_separated(), lines 655-658.
TextSeparatedClosure(fragment) ==
    CASE fragment.kind = "StyledString" -> Some(fragment.string.text)
      [] OTHER -> None

\* iter().filter_map(closure).collect::<Vec<_>>() of text(), lines 639-646
RECURSIVE TextParts(_)
TextParts(frags) ==
    IF frags = <<>> THEN <<>> ELSE TextClosure(Head(frags)) \o TextParts(Tail(frags))

\* iter().filter_map(closure).collect::<Vec<_>>() of text_separated(), lines 653-659
RECURSIVE TextSeparatedParts(_)
TextSeparatedParts(frags) ==
    IF frags = <<>> THEN <<>>
    ELSE TextSeparatedClosure(Head(frags)) \o TextSeparatedParts(Tail(frags))

\* PdfParagraph::text
Text(frags) == Join(TextParts(frags), <<>>)

\* PdfParagraph::text_separated
TextSeparated(frags, separator) == Join(TextSeparatedParts(frags), separator)

QueryFont == [handle |-> 1, name |-> "F"]

QueryFragments ==
    {StyledStringFragment(StyledString(t, QueryFont, 12)) : t \in Texts}
        \cup {LineBreakFragment("LeftAlign"), NonTextObjectFragment(1)}

QuerySeparators == {<<"|">>, SPACE, <<>>}

\* A paragraph with any fragments, about to be queried.
InitText ==
    /\ pc = "query"
    /\ fragments \in SeqsUpTo(QueryFragments, MaxFrags)
    /\ separator_arg \in QuerySeparators
    /\ pushed = <<>>
    /\ separators = <<>>
    /\ text_result = None
    /\ text_separated_result = None
    /\ IdleAlign
    /\ IdleFromObjects

QueryText ==
    /\ pc = "query"
    /\ text_result = None
    /\ text_result' = Some(Text(fragments))
    /\ UNCHANGED <<pc, fragments, pushed, separators, separator_arg,
                   text_separated_result, alignVars, fromObjectsVars>>

QueryTextSeparated ==
    /\ pc = "query"
    /\ text_separated_result = None
    /\ text_separated_result' = Some(TextSeparated(fragments, separator_arg))
    /\ UNCHANGED <<pc, fragments, pushed, separators, separator_arg,
                   text_result, alignVars, fromObjectsVars>>

NextText == QueryText \/ QueryTextSeparated

SpecText == InitText /\ [][NextText]_vars

\* What one fragment contributes to text(), as the claim states it.
Contribution(fragment) ==
    IF fragment.kind = "StyledString" THEN fragment.string.text
    ELSE IF fragment.kind = "LineBreak" THEN NEWLINE
    ELSE <<>>

\* The in-order concatenation of the fragments' contributions.
RECURSIVE Concatenation(_)
Concatenation(frags) ==
    IF frags = <<>> THEN <<>>
    ELSE Concatenation(Front(frags)) \o Contribution(Last(frags))

\* The StyledString texts in order, `separator` before every one but the first.
RECURSIVE JoinedStyledTexts(_, _)
JoinedStyledTexts(frags, separator) ==
    IF frags = <<>> THEN <<>>
    ELSE IF ~IsStyled(Last(frags)) THEN JoinedStyledTexts(Front(frags), separator)
    ELSE IF \A i \in 1..(Len(frags) - 1) : ~IsStyled(frags[i])
         THEN Last(frags).string.text
         ELSE JoinedStyledTexts(Front(frags), separator) \o separator
              \o Last(frags).string.text

\* C5: text() is the in-order concatenation in which a StyledString contributes
\* its text, a LineBreak "\n" and a non-text object nothing; text_separated(sep)
\* is the StyledString texts in order joined by sep, breaks and non-text skipped.
C5_TextAndTextSeparated ==
    /\ text_result # None => Unwrap(text_result) = Concatenation(fragments)
    /\ text_separated_result # None =>
          Unwrap(text_separated_result) = JoinedStyledTexts(fragments, separator_arg)

\* Fragments [S1, LineBreak, S2], both queries answered.
C5_Witness ==
    /\ Len(fragments) = 3
    /\ IsStyled(fragments[1]) /\ fragments[1].string.text = <<"a">>
    /\ fragments[2].kind = "LineBreak"
    /\ IsStyled(fragments[3]) /\ fragments[3].string.text = <<"a", " ">>
    /\ separator_arg = <<"|">>
    /\ text_result = Some(<<"a", "\n", "a", " ">>)
    /\ text_separated_result = Some(<<"a", "|", "a", " ">>)

(***************************************************************************)
(* PdfParagraph::guess_line_alignment                                      *)
(***************************************************************************)
ALIGNMENT_THRESHOLD == 2

\* The match on (is_aligned_left, is_aligned_right), lines 543-548 and 556-561.
MatchAlignment(is_aligned_left, is_aligned_right) ==
    CASE is_aligned_left /\ is_aligned_right -> "Justify"
      [] is_aligned_left /\ ~is_aligned_right -> "LeftAlign"
      [] ~is_aligned_left /\ is_aligned_right -> "RightAlign"
      [] OTHER -> "Center"

\* A plausible slip: the tolerance is inclusive.
IsAlignedInclusive(a, b) == Abs(a - b) <= ALIGNMENT_THRESHOLD

\* (a.value - b.value).abs() < ALIGNMENT_THRESHOLD
IsAligned(a, b) == Abs(a - b) < ALIGNMENT_THRESHOLD

\* PdfParagraph::guess_line_alignment
GuessLineAlignment(previous_line_left, previous_line_right, line_left, line_right, para_left, para_right) ==
    IF previous_line_left # None /\ previous_line_right # None
    THEN MatchAlignment(IsAligned(Unwrap(previous_line_left), line_left),
                        IsAligned(Unwrap(previous_line_right), line_right))
    ELSE MatchAlignment(IsAligned(para_left, line_left),
                        IsAligned(para_right, line_right))

Coords == 0..MaxCoord

OptionCoords == {None} \cup {Some(c) : c \in Coords}

InitAlign ==
    /\ pc = "align"
    /\ align_args \in {Some(a) : a \in
          [previous_line_left : OptionCoords, previous_line_right : OptionCoords,
           line_left : Coords, line_right : Coords,
           paragraph_left : Coords, paragraph_right : Coords]}
    /\ align_result = None
    /\ IdleParagraph
    /\ IdleFromObjects

CallGuessLineAlignment ==
    /\ pc = "align"
    /\ align_result = None
    /\ LET a == Unwrap(align_args)
       IN  align_result' = Some(GuessLineAlignment(
               a.previous_line_left, a.previous_line_right, a.line_left, a.line_right,
               a.paragraph_left, a.paragraph_right))
    /\ UNCHANGED <<pc, align_args, paragraphVars, fromObjectsVars>>

NextAlign == CallGuessLineAlignment

SpecAlign == InitAlign /\ [][NextAlign]_vars

\* The reference edges the claim names: the previous line's when both are present,
\* the paragraph's otherwise.
RefEdges(a) ==
    IF a.previous_line_left # None /\ a.previous_line_right # None
    THEN [left |-> Unwrap(a.previous_line_left), right |-> Unwrap(a.previous_line_right)]
    ELSE [left |-> a.paragraph_left, right |-> a.paragraph_right]

\* C10: with L = |ref_left - line_left| < 2.0 and R = |ref_right - line_right| < 2.0
\* (strict), ref being the previous line when both its edges are present and the
\* paragraph bounds otherwise, guess_line_alignment returns Justify for (L, R),
\* LeftAlign for (L, not R), RightAlign for (not L, R), Center for (not L, not R),
\* and never None.
C10_GuessLineAlignment ==
    align_result # None =>
        LET a == Unwrap(align_args)
            dl == RefEdges(a).left - a.line_left
            dr == RefEdges(a).right - a.line_right
            L == -2 < dl /\ dl < 2
            R == -2 < dr /\ dr < 2
            result == Unwrap(align_result)
        IN  /\ result # "None"
            /\ (L /\ R) <=> result = "Justify"
            /\ (L /\ ~R) <=> result = "LeftAlign"
            /\ (~L /\ R) <=> result = "RightAlign"
            /\ (~L /\ ~R) <=> result = "Center"

\* A left edge exactly 2.0 away from the previous line's, the right edge 1.0 away.
C10_Witness ==
    /\ align_result = Some("RightAlign")
    /\ Unwrap(align_args).previous_line_left = Some(0)
    /\ Unwrap(align_args).line_left = 2
    /\ Unwrap(align_args).previous_line_right = Some(2)
    /\ Unwrap(align_args).line_right = 1

(***************************************************************************)
(* PdfParagraph::from_objects                                              *)
(*                                                                         *)
(* A page object is seen through bounds() (an Option of a rectangle with   *)
(* left, bottom, right, top) and as_text_object() (an Option of a text     *)
(* object with text(), font(), unscaled_font_size()); its handle is its    *)
(* index in the slice.                                                     *)
(***************************************************************************)
\* PdfRect::height
RectHeight(bounds) == bounds.top - bounds.bottom

\* PdfRect::width
RectWidth(bounds) == bounds.right - bounds.left

\* object.bounds().map(|bounds| bounds.bottom).unwrap_or(PdfPoints::ZERO)
ObjectBottom(object) ==
    IF object.bounds = None THEN ZERO ELSE Unwrap(object.bounds).bottom

\* object.bounds().map(|bounds| bounds.height()).unwrap_or(PdfPoints::ZERO)
ObjectTop(object) ==
    IF object.bounds = None THEN ZERO ELSE RectHeight(Unwrap(object.bounds))

\* object.bounds().map(|bounds| bounds.left).unwrap_or(PdfPoints::ZERO)
ObjectLeft(object) ==
    IF object.bounds = None THEN ZERO ELSE Unwrap(object.bounds).left

\* object.bounds().map(|bounds| bounds.width()).unwrap_or(PdfPoints::ZERO)
ObjectRight(object) ==
    IF object.bounds = None THEN ZERO ELSE RectWidth(Unwrap(object.bounds))

\* The tuple the map closure returns for objects[i], line 331:
\* (object_bottom, object_top, object_left, object_right, object).
PositionedObject(objs, i) ==
    <<ObjectBottom(objs[i]), ObjectTop(objs[i]), ObjectLeft(objs[i]),
      ObjectRight(objs[i]), i>>

\* The running minimum kept by the map closure, lines 280-287 and 308-315.
RECURSIVE RunningMin(_)
RunningMin(values) ==
    IF values = <<>>
    THEN None
    ELSE LET acc == RunningMin(Front(values))
         IN  IF acc = None THEN Some(Last(values))
             ELSE IF Unwrap(acc) > Last(values) THEN Some(Last(values))
             ELSE acc

\* The running maximum kept by the map closure, lines 294-301 and 322-329.
RECURSIVE RunningMax(_)
RunningMax(values) ==
    IF values = <<>>
    THEN None
    ELSE LET acc == RunningMax(Front(values))
         IN  IF acc = None THEN Some(Last(values))
             ELSE IF Unwrap(acc) < Last(values) THEN Some(Last(values))
             ELSE acc

\* The comparator handed to sorted_by, lines 333-361.
Compare(a, b) ==
    LET a_top == a[1]
        a_bottom == a[2]
        a_right == a[4]
        b_top == b[1]
        b_bottom == b[2]
        b_left == b[3]
    IN  IF b_top < a_bottom THEN "Less"
        ELSE IF a_top > b_bottom THEN "Greater"
        ELSE IF a_right < b_left THEN "Less"
        ELSE "Greater"

\* slice::sort_by orders by is_less(a, b) = (compare(a, b) == Less).
IsLess(a, b) == Compare(a, b) = "Less"

\* Insert x into s from the right end, passing every element x is less than.
RECURSIVE InsertTail(_, _)
InsertTail(s, x) ==
    IF s = <<>> THEN <<x>>
    ELSE IF IsLess(x, Last(s)) THEN Append(InsertTail(Front(s), x), Last(s))
    ELSE Append(s, x)

\* Insert x into s from the left end, passing every element that is less than x.
RECURSIVE InsertHead(_, _)
InsertHead(x, s) ==
    IF s = <<>> THEN <<x>>
    ELSE IF IsLess(Head(s), x) THEN <<Head(s)>> \o InsertHead(x, Tail(s))
    ELSE <<x>> \o s

\* The stable sort of a slice of at most 20 elements is an insertion sort: left to
\* right (insert_tail) or right to left (insert_head), by the release of the
\* standard library.
RECURSIVE InsertionSort(_, _)
InsertionSort(variant, v) ==
    IF v = <<>> THEN <<>>
    ELSE IF variant = "insert_tail"
         THEN InsertTail(InsertionSort(variant, Front(v)), Last(v))
         ELSE InsertHead(Head(v), InsertionSort(variant, Tail(v)))

SortVariants == {"insert_tail", "insert_head"}

\* PdfLine::new
PdfLine(alignment, bottom, left, width, frags) ==
    [alignment |-> alignment, bottom |-> bottom, left |-> left, width |-> width,
     fragments |-> frags]

\* PdfStyledString::from_text_object
FromTextObject(text_object) ==
    StyledString(text_object.text, text_object.font, text_object.font_size)

\* PdfStyledString::does_match_object_styling
DoesMatchObjectStyling(self, other) ==
    DoesMatchRawStyling(self, other.font_size, other.font)

\* The condition of line 387: the object starts a new line.
IsNewLine(last_left, left) == last_left = None \/ left < Unwrap(last_left)

\* A plausible slip in the paragraph-break test: only the vertical gap is looked
\* at, and a change of alignment is ignored.
IsParagraphBreakGapOnly(next_line_alignment, line_alignment, last_bottom, last_height, top) ==
    UnwrapOr(last_bottom, ZERO) - UnwrapOr(last_height, ZERO) > top

\* The condition of lines 399-402: the line break is a paragraph break.
IsParagraphBreak(next_line_alignment, line_alignment, last_bottom, last_height, top) ==
    \/ next_line_alignment # line_alignment
    \/ UnwrapOr(last_bottom, ZERO) - UnwrapOr(last_height, ZERO) > top

\* A plausible slip in the fragment emission: a text object is merged into the
\* last StyledString of the line whatever lies between.
EmitFragmentAcross(frags, handle, object) ==
    IF object.text_object = None
    THEN Append(frags, NonTextObjectFragment(handle))
    ELSE LET text_object == Unwrap(object.text_object)
             styled == {i \in DOMAIN frags : IsStyled(frags[i])}
             last == IF styled = {} THEN 0
                     ELSE CHOOSE i \in styled : \A j \in styled : j <= i
         IN  IF last # 0 /\ DoesMatchObjectStyling(frags[last].string, text_object)
             THEN [frags EXCEPT ![last] = StyledStringFragment(
                      StyledStringPush(@.string, text_object.text, SPACE))]
             ELSE Append(frags, StyledStringFragment(FromTextObject(text_object)))

\* The fragment emission of lines 440-484, on the fragments of the current line.
EmitFragment(frags, handle, object) ==
    IF object.text_object # None
    THEN LET text_object == Unwrap(object.text_object)
         IN  IF frags # <<>> /\ IsStyled(Last(frags))
             THEN IF DoesMatchObjectStyling(Last(frags).string, text_object)
                  THEN [frags EXCEPT ![Len(frags)] = StyledStringFragment(
                           StyledStringPush(@.string, text_object.text, SPACE))]
                  ELSE Append(frags, StyledStringFragment(FromTextObject(text_object)))
             ELSE Append(frags, StyledStringFragment(FromTextObject(text_object)))
    ELSE Append(frags, NonTextObjectFragment(handle))

\* A plausible slip: the line break is pushed onto the fragments of the line
\* being closed instead of starting the vector of the next line.
StartLineAppend(frags, alignment) == Append(frags, LineBreakFragment(alignment))

\* Lines 419-420: the fragments of the line a paragraph break starts, which
\* replace those of the line just moved into `lines`.
StartLine(frags, alignment) == <<LineBreakFragment(alignment)>>

\* A plausible completion of the unfinished tail: one paragraph per line record.
ParagraphPerLine(line_records) ==
    [i \in DOMAIN line_records |-> [fragments |-> line_records[i].fragments]]

\* The tail of from_objects, lines 495-503: the lines are drained and printed, and
\* the vector `paragraphs`, to which nothing is ever pushed, is returned.
CollectParagraphs(line_records) == <<>>

\* Lines 257-376: the locals, the positions, the sort, the paragraph extents.
PositionAndSort ==
    /\ pc = "start"
    /\ LET positions == [i \in DOMAIN objects |-> PositionedObject(objects, i)]
           column(k) == [i \in DOMAIN positions |-> positions[i][k]]
       IN  /\ objects_bottom' = RunningMin(column(1))
           /\ objects_top' = RunningMax(column(2))
           /\ objects_left' = RunningMin(column(3))
           /\ objects_right' = RunningMax(column(4))
           /\ \E variant \in SortVariants :
                 positioned_objects' = InsertionSort(variant, positions)
    /\ paragraph_left' = UnwrapOr(objects_left', ZERO)
    /\ paragraph_right' = UnwrapOr(objects_right', paragraph_left')
    /\ current_line_bottom' = ZERO
    /\ current_line_left' = ZERO
    /\ current_line_right' = ZERO
    /\ current_line_alignment' = "None"
    /\ last_object_bottom' = None
    /\ last_object_height' = None
    /\ last_object_left' = None
    /\ last_object_right' = None
    /\ last_object_width' = None
    /\ idx' = 0
    /\ pc' = "loop"
    /\ UNCHANGED <<objects, lines, current_line_fragments, paragraphs,
                   paragraphVars, alignVars>>

\* One iteration of the for loop, lines 378-485.
LoopStep ==
    /\ pc = "loop"
    /\ idx < Len(positioned_objects)
    /\ LET position == positioned_objects[idx + 1]
           top == position[1]
           bottom == position[2]
           left == position[3]
           right == position[4]
           object == objects[position[5]]
           next_line_alignment ==
               GuessLineAlignment(last_object_left, last_object_right, left, right,
                                  paragraph_left, paragraph_right)
           break ==
               /\ IsNewLine(last_object_left, left)
               /\ IsParagraphBreak(next_line_alignment, current_line_alignment,
                                   last_object_bottom, last_object_height, top)
           line_fragments ==
               IF break THEN StartLine(current_line_fragments, current_line_alignment)
               ELSE current_line_fragments
       IN  /\ lines' = IF break
                       THEN Append(lines, PdfLine(current_line_alignment,
                                current_line_bottom, current_line_left,
                                right - current_line_left, current_line_fragments))
                       ELSE lines
           /\ current_line_left' = IF break THEN left ELSE current_line_left
           /\ current_line_bottom' = IF break THEN bottom ELSE current_line_bottom
           /\ current_line_alignment' =
                  IF break THEN next_line_alignment ELSE current_line_alignment
           /\ last_object_left' = Some(left)
           /\ last_object_right' = Some(right)
           /\ last_object_width' = Some(right - left)
           /\ last_object_bottom' = Some(bottom)
           /\ last_object_height' = Some(top - bottom)
           /\ current_line_right' = right
           /\ current_line_fragments' = EmitFragment(line_fragments, position[5], object)
    /\ idx' = idx + 1
    /\ UNCHANGED <<pc, objects, positioned_objects, objects_bottom, objects_top,
                   objects_left, objects_right, paragraph_left, paragraph_right,
                   paragraphs, paragraphVars, alignVars>>

\* Lines 487-493: the current line is closed after the last object.
CloseLastLine ==
    /\ pc = "loop"
    /\ idx = Len(positioned_objects)
    /\ lines' = Append(lines, PdfLine(current_line_alignment, current_line_bottom,
                          current_line_left, current_line_right - current_line_left,
                          current_line_fragments))
    /\ current_line_fragments' = <<>>
    /\ pc' = "segment"
    /\ UNCHANGED <<objects, positioned_objects, objects_bottom, objects_top,
                   objects_left, objects_right, paragraph_left, paragraph_right, idx,
                   current_line_bottom, current_line_left, current_line_right,
                   current_line_alignment, last_object_bottom, last_object_height,
                   last_object_left, last_object_right, last_object_width,
                   paragraphs, paragraphVars, alignVars>>

\* Lines 495-503: the lines are drained and the paragraphs returned.
ReturnParagraphs ==
    /\ pc = "segment"
    /\ paragraphs' = Some(CollectParagraphs(lines))
    /\ lines' = <<>>
    /\ pc' = "done"
    /\ UNCHANGED <<objects, positioned_objects, objects_bottom, objects_top,
                   objects_left, objects_right, paragraph_left, paragraph_right, idx,
                   current_line_fragments,
                   current_line_bottom, current_line_left, current_line_right,
                   current_line_alignment, last_object_bottom, last_object_height,
                   last_object_left, last_object_right, last_object_width,
                   paragraphVars, alignVars>>

Next == PositionAndSort \/ LoopStep \/ CloseLastLine \/ ReturnParagraphs

Rects ==
    {r \in [left : Coords, bottom : Coords, right : Coords, top : Coords] :
        r.left <= r.right /\ r.bottom <= r.top}

PlainTextObject == [text |-> <<"a">>, font |-> QueryFont, font_size |-> 12]

\* Objects of any geometry: with or without bounds, text or not.
GeometryObjects ==
    [bounds : {None} \cup {Some(r) : r \in Rects},
     text_object : {None, Some(PlainTextObject)}]

\* The locals of from_objects before its first statement runs.
InitLocals ==
    /\ positioned_objects = <<>>
    /\ objects_bottom = None
    /\ objects_top = None
    /\ objects_left = None
    /\ objects_right = None
    /\ paragraph_left = ZERO
    /\ paragraph_right = ZERO
    /\ idx = 0
    /\ lines = <<>>
    /\ current_line_fragments = <<>>
    /\ current_line_bottom = ZERO
    /\ current_line_left = ZERO
    /\ current_line_right = ZERO
    /\ current_line_alignment = "None"
    /\ last_object_bottom = None
    /\ last_object_height = None
    /\ last_object_left = None
    /\ last_object_right = None
    /\ last_object_width = None
    /\ paragraphs = None

\* from_objects is entered with a slice of objects of any geometry.
Init ==
    /\ pc = "start"
    /\ objects \in SeqsUpTo(GeometryObjects, MaxObjs)
    /\ InitLocals
    /\ IdleParagraph
    /\ IdleAlign

Spec == Init /\ [][Next]_vars

Rect(left, bottom, right, top) ==
    [left |-> left, bottom |-> bottom, right |-> right, top |-> top]

\* Three placements that between them reach every branch of the loop: no bounds, a
\* wide box at the left edge, an empty box at the right edge.
LineBounds == {None, Some(Rect(0, 1, 2, 2)), Some(Rect(2, 1, 2, 2))}

\* Text objects that differ from the first in text, size, handle or font name.
LineTextObjects ==
    {[text |-> <<"a">>, font |-> [handle |-> 1, name |-> "F"], font_size |-> 12],
     [text |-> <<"a", " ">>, font |-> [handle |-> 1, name |-> "F"], font_size |-> 12],
     [text |-> <<"a">>, font |-> [handle |-> 1, name |-> "F"], font_size |-> 14],
     [text |-> <<"a">>, font |-> [handle |-> 2, name |-> "F"], font_size |-> 12],
     [text |-> <<"a">>, font |-> [handle |-> 1, name |-> ""], font_size |-> 12]}

\* Objects of any kind and styling, in a few placements.
LineObjects ==
    [bounds : LineBounds,
     text_object : {None} \cup {Some(t) : t \in LineTextObjects}]

\* from_objects is entered with a slice of objects of any styling.
InitLine ==
    /\ pc = "start"
    /\ objects \in SeqsUpTo(LineObjects, MaxLineObjs)
    /\ InitLocals
    /\ IdleParagraph
    /\ IdleAlign

SpecLine == InitLine /\ [][Next]_vars

(***************************************************************************)
(* Claims about from_objects.                                              *)
(***************************************************************************)
Returned == pc = "done"

\* The rectangle of objects[i]; an object without bounds counts as (0, 0, 0, 0).
BoundsOf(i) == UnwrapOr(objects[i].bounds, Rect(0, 0, 0, 0))

\* C2: from_objects applied to a list of exactly one text object returns exactly one
\* paragraph whose fragments are one styled fragment with that object's text, and
\* for every non-empty list it returns one or more paragraphs.
C2_OneParagraphForOneTextObject ==
    (Returned /\ objects # <<>>) =>
        /\ Len(Unwrap(paragraphs)) >= 1
        /\ (Len(objects) = 1 /\ objects[1].text_object # None) =>
              /\ Len(Unwrap(paragraphs)) = 1
              /\ Len(Unwrap(paragraphs)[1].fragments) = 1
              /\ IsStyled(Unwrap(paragraphs)[1].fragments[1])
              /\ Unwrap(paragraphs)[1].fragments[1].string.text
                     = Unwrap(objects[1].text_object).text

NoAdjacentSameStyle(frags) ==
    \A i \in 1..(Len(frags) - 1) :
        (IsStyled(frags[i]) /\ IsStyled(frags[i + 1])) =>
            ~SameStyle(frags[i].string, frags[i + 1].string)

\* The text of a fragment after `text` was appended to `old` with a single space.
AppendedWithSpace(old, text, new) ==
    \/ new = old \o SPACE \o text
    \/ EndsWith(old, SPACE) /\ new = old \o text

\* One iteration of the loop, as C3 describes the fragments it leaves.
C3_Step ==
    (pc = "loop" /\ idx' = idx + 1) =>
        LET handle == positioned_objects[idx + 1][5]
            object == objects[handle]
            closed == Len(lines') = Len(lines) + 1
            line == IF closed THEN <<LineBreakFragment(current_line_alignment)>>
                    ELSE current_line_fragments
            tail == Last(line)
            new == current_line_fragments'
        IN  IF object.text_object = None
            THEN new = Append(line, NonTextObjectFragment(handle))
            ELSE LET text_object == Unwrap(object.text_object)
                 IN  IF line # <<>> /\ IsStyled(tail)
                        /\ SameStyle(tail.string, text_object)
                     THEN /\ Len(new) = Len(line)
                          /\ SubSeq(new, 1, Len(line) - 1) = SubSeq(line, 1, Len(line) - 1)
                          /\ IsStyled(Last(new))
                          /\ SameStyle(Last(new).string, tail.string)
                          /\ AppendedWithSpace(tail.string.text, text_object.text,
                                               Last(new).string.text)
                     ELSE new = Append(line, StyledStringFragment(
                                   StyledString(text_object.text, text_object.font,
                                                text_object.font_size)))

\* C3: in every line from_objects assembles no two adjacent StyledString fragments
\* have the same style; a text object is appended to the tail fragment with a single
\* space exactly when the tail is a StyledString of the same style, and a new
\* fragment is started when the tail is a line break, a non-text object or a
\* StyledString of another style.
C3_LinesCoalesced ==
    /\ [](/\ NoAdjacentSameStyle(current_line_fragments)
          /\ \A k \in DOMAIN lines : NoAdjacentSameStyle(lines[k].fragments))
    /\ [][C3_Step]_vars

\* A non-text object between two text objects of one style: three fragments.
C3_Witness ==
    /\ pc = "segment"
    /\ \E k \in DOMAIN lines :
          LET f == lines[k].fragments
          IN  \E i \in 1..(Len(f) - 2) :
                 /\ IsStyled(f[i])
                 /\ f[i + 1].kind = "NonTextObject"
                 /\ IsStyled(f[i + 2])
                 /\ SameStyle(f[i].string, f[i + 2].string)

\* C6: from_objects applied to the empty list runs to its end (no step of it is
\* stuck) and returns an empty list of paragraphs.
C6_EmptyInput ==
    (objects = <<>> /\ pc \in {"start", "loop", "segment", "done"}) =>
        /\ pc = "loop" => idx = Len(positioned_objects)
        /\ pc = "done" => paragraphs = Some(<<>>)

C6_Witness == objects = <<>> /\ pc = "done" /\ paragraphs = Some(<<>>)

\* The order the claim states for two rectangles.
ClaimedOrder(A, B) ==
    IF B.top < A.bottom THEN "Less"
    ELSE IF A.top > B.bottom THEN "Greater"
    ELSE IF A.right < B.left THEN "Less"
    ELSE "Greater"

\* C7: for objects A and B the comparator of the sort returns 'A precedes B' when
\* B.top < A.bottom, otherwise 'A follows B' when A.top > B.bottom, otherwise
\* 'A precedes B' when A.right < B.left and 'A follows B' in every remaining case,
\* top being the rectangle's top edge.
C7_ComparatorOrder ==
    pc \in {"loop", "segment", "done"} =>
        \A i, j \in DOMAIN positioned_objects :
            i # j =>
            Compare(positioned_objects[i], positioned_objects[j])
                = ClaimedOrder(BoundsOf(positioned_objects[i][5]),
                               BoundsOf(positioned_objects[j][5]))

\* The comparator does not decide: the vertical spans overlap and neither
\* rectangle lies strictly to the left of the other.
Undecided(A, B) ==
    /\ A.bottom <= B.top /\ B.bottom <= A.top
    /\ ~(A.right < B.left)
    /\ ~(B.right < A.left)

SortedPosition(i) ==
    CHOOSE k \in DOMAIN positioned_objects : positioned_objects[k][5] = i

\* C8: two objects between which the comparator does not decide appear in the
\* sorted sequence in the same relative order as in the input.
C8_TiesKeepInputOrder ==
    pc \in {"loop", "segment", "done"} =>
        \A i, j \in DOMAIN objects :
            (i < j /\ Undecided(BoundsOf(i), BoundsOf(j))) =>
                SortedPosition(i) < SortedPosition(j)

\* The smallest left edge and the largest right edge over all objects.
TrueParagraphLeft == CHOOSE l \in {BoundsOf(i).left : i \in DOMAIN objects} :
                        \A i \in DOMAIN objects : l <= BoundsOf(i).left

TrueParagraphRight == CHOOSE r \in {BoundsOf(i).right : i \in DOMAIN objects} :
                         \A i \in DOMAIN objects : r >= BoundsOf(i).right

\* One iteration of the loop, as C9 describes when it closes the current line.
C9_Step ==
    (pc = "loop" /\ idx' = idx + 1) =>
        LET this == BoundsOf(positioned_objects[idx + 1][5])
            first == idx = 0
            last == BoundsOf(positioned_objects[idx][5])
            starts_line == first \/ this.left < last.left
            candidate ==
                IF first
                THEN GuessLineAlignment(None, None, this.left, this.right,
                                        TrueParagraphLeft, TrueParagraphRight)
                ELSE GuessLineAlignment(Some(current_line_left), Some(last.right),
                                        this.left, this.right,
                                        TrueParagraphLeft, TrueParagraphRight)
            gap == ~first /\ last.bottom - (last.top - last.bottom) > this.top
            closed == Len(lines') = Len(lines) + 1
        IN  /\ starts_line => (closed <=> (candidate # current_line_alignment \/ gap))
            /\ ~starts_line => ~closed
            /\ ~closed => /\ Len(current_line_fragments') >= Len(current_line_fragments)
                          /\ current_line_fragments'[Len(current_line_fragments')].kind
                                 # "LineBreak"

\* C9: when an object starts a new line, the current line is closed and a new line
\* record started if and only if the candidate line's alignment, classified against
\* the closing line's left and right edges, differs from the current line's
\* alignment, or last_object.bottom - last_object.height > top, top being the new
\* object's top edge; otherwise no line break is emitted and the line continues.
C9_ParagraphBreakRule == [][C9_Step]_vars

\* C11: for every non-empty list the paragraph extents handed to the alignment
\* classifier are paragraph_left = the smallest left edge and paragraph_right = the
\* largest right edge over all objects, an object without bounds counting as the
\* rectangle (0, 0, 0, 0).
C11_ParagraphExtents ==
    (pc \in {"loop", "segment", "done"} /\ objects # <<>>) =>
        /\ paragraph_left = TrueParagraphLeft
        /\ paragraph_right = TrueParagraphRight

\* The fragment vectors of all line records, closed and current.
LineRecords ==
    [k \in 1..(Len(lines) + 1) |->
        IF k <= Len(lines) THEN lines[k].fragments ELSE current_line_fragments]

\* C12: at every point of the traversal every line record, closed or current,
\* holds at most one LineBreak fragment, and that one at index 0 (the first of the
\* vector): a LineBreak never follows a styled or non-text fragment.
C12_LineBreakOnlyFirst ==
    \A k \in DOMAIN LineRecords :
        \A i \in DOMAIN LineRecords[k] :
            LineRecords[k][i].kind = "LineBreak" => i = 1

\* A closed line that holds a LineBreak followed by two more fragments.
C12_Witness ==
    /\ pc = "segment"
    /\ \E k \in DOMAIN lines :
          /\ Len(lines[k].fragments) >= 3
          /\ lines[k].fragments[1].kind = "LineBreak"

\* A step that closes a line record which holds at least one object, as C13
\* describes the width it records: the object last appended to the closing line is
\* the one the loop consumed last.
C13_Step ==
    (pc = "loop" /\ Len(lines') = Len(lines) + 1 /\ idx >= 1) =>
        LET closed == Last(lines')
            last == BoundsOf(positioned_objects[idx][5])
        IN  closed.width = last.right - closed.left

\* C13: every line record from_objects closes, at a paragraph break or at the end
\* of the traversal, has width = the right edge of the last object appended to that
\* line minus the line's own left edge, whatever object starts the following line.
C13_ClosedLineWidth == [][C13_Step]_vars

\* The paragraph breaks promoted so far: each one opens a vector with its one
\* LineBreak fragment (lines 419-420), and no other statement creates one.
PromotedBreaks ==
    Cardinality({<<k, i>> \in (DOMAIN LineRecords) \X (1..MaxLineObjs + 1) :
                    /\ i \in DOMAIN LineRecords[k]
                    /\ LineRecords[k][i].kind = "LineBreak"})

\* The line record the initial state of lines 367-376 is closed as.
IsInitialLine(line) ==
    /\ line.fragments = <<>>
    /\ line.alignment = "None"
    /\ line.bottom = ZERO
    /\ line.left = ZERO

\* The shape of the accumulated line records once the first object is consumed.
C14_Shape ==
    (pc \in {"loop", "segment"} /\ objects # <<>> /\ idx >= 1) =>
        /\ lines # <<>>
        /\ IsInitialLine(lines[1])
        /\ current_line_alignment # "None"
        /\ \A k \in 2..Len(lines) :
              /\ lines[k].fragments # <<>>
              /\ lines[k].fragments[1].kind = "LineBreak"
        /\ pc = "loop" =>
              /\ current_line_fragments # <<>>
              /\ current_line_fragments[1].kind = "LineBreak"
              /\ Len(lines) = PromotedBreaks
        /\ pc = "segment" => Len(lines) = PromotedBreaks + 1

\* The first object consumed takes the paragraph-break branch: it closes the
\* initial line, opens a vector with a LineBreak, and takes an alignment other than
\* None from the classifier.
C14_Step ==
    (pc = "loop" /\ idx = 0 /\ idx' = 1) =>
        /\ lines' = <<PdfLine("None", ZERO, ZERO, lines'[1].width, <<>>)>>
        /\ current_line_fragments'[1].kind = "LineBreak"
        /\ current_line_alignment' # "None"

\* C14: for every non-empty input the first object processed takes the
\* paragraph-break branch (the classifier never yields the initial alignment
\* None), so the first accumulated line record has no fragments, alignment None,
\* bottom 0 and left 0, every later line record begins with a LineBreak fragment,
\* and the number of accumulated line records is the number of promoted breaks
\* plus one.
C14_FirstObjectBreaks == []C14_Shape /\ [][C14_Step]_vars

\* A traversal that promoted two breaks and accumulated three line records.
C14_Witness ==
    /\ pc = "segment"
    /\ Len(lines) = 3
    /\ PromotedBreaks = 2
    /\ IsInitialLine(lines[1])

====
